---- MODULE Spec2Model ----
(***************************************************************************)
(* A model of core/classify/llama.py: the LLAMAClassify task.              *)
(*                                                                         *)
(* The attributes of the instance are the state; finetune and generate     *)
(* are atomic actions; the library calls they make (datasets, os.path,     *)
(* peft, transformers) are modelled by what they return to this code.      *)
(* What a call did (which files it probed, what it loaded, what it handed  *)
(* to the trainer or to eval_output) is recorded in the variable run.      *)
(***************************************************************************)
EXTENDS Integers, Sequences, FiniteSets, TLC

VARIABLES
    labels,                       \* self.labels: the ordered label vocabulary
    val_set_size,                 \* self.val_set_size
    resume_from_checkpoint,       \* self.resume_from_checkpoint
    adapter_weights,              \* self.adapter_weights
    load_8bit,                    \* self.load_8bit
    per_gpu_train_batch_size,     \* self.per_gpu_train_batch_size
    gradient_accumulation_steps,  \* self.gradient_accumulation_steps
    world_size,                   \* self.world_size
    ddp,                          \* self.ddp
    fs,                           \* the paths that exist on the filesystem
    data,                         \* what load_train_data last returned
    run,                          \* what the last finetune/generate call did
    downgraded,                   \* history: line 107 has run on this instance
    splits,                       \* results of successive split_train_data calls
    num_rows,                     \* train_data.num_rows read at line 119
    train_args                    \* the TrainingArguments built at line 122

vars == << labels, val_set_size, resume_from_checkpoint, adapter_weights,
           load_8bit, per_gpu_train_batch_size, gradient_accumulation_steps, world_size,
           ddp, fs, data, run, downgraded, splits, num_rows, train_args >>

-----------------------------------------------------------------------------
(* Bounds of the model *)

MaxRows == 3
MaxValSetSize == 2
MaxItems == 3
MaxSplits == 2
MaxNumRows == 100
MaxBatch == 4
MaxAccum == 2
MaxWorld == 2

-----------------------------------------------------------------------------
(* Python values *)

PyFalse == "<False>"
PyNone == "<None>"

\* bool(v) of a value that is False, None or a str
Truthy(v) == v \notin {PyFalse, PyNone, ""}

Range(s) == { s[i] : i \in 1..Len(s) }

\* os.path.join(dir, name)
join(dir, name) == << dir, name >>

FullCheckpoint == "pytorch_model.bin"
AdapterCheckpoint == "adapter_model.bin"
NoFile == << >>

\* os.path.exists(path)
exists(path) == path \in fs

-----------------------------------------------------------------------------
(* Tokenization (lines 42-46) *)

\* list.index(x): the 0-based position of the first element equal to x
\* (Python raises ValueError when there is none: see tokenize_prompt)
\* variant of index: the position of the last element equal to x
MutIndexLast(l, x) ==
    CHOOSE i \in 0..(Len(l) - 1) :
        l[i + 1] = x /\ \A j \in (i + 1)..(Len(l) - 1) : l[j + 1] # x

index(l, x) ==
    CHOOSE i \in 0..(Len(l) - 1) :
        l[i + 1] = x /\ \A j \in 0..(i - 1) : l[j + 1] # x

\* tokenize_prompt(data_point): the tokenizer's result for the input text is
\* represented by the text itself; labels is -1 exactly when raised
\* variant of tokenize_prompt: an output outside the vocabulary gets label 0
MutTokenizeNoRaise(data_point) ==
    [ raised |-> FALSE,
      input_ids |-> data_point.input,
      labels |-> IF data_point.output \in Range(labels)
                 THEN index(labels, data_point.output) ELSE 0 ]

tokenize_prompt(data_point) ==
    IF data_point.output \in Range(labels)
    THEN [ raised |-> FALSE,
           input_ids |-> data_point.input,
           labels |-> index(labels, data_point.output) ]
    ELSE [ raised |-> TRUE, input_ids |-> data_point.input, labels |-> -1 ]

-----------------------------------------------------------------------------
(* The datasets library, as split_train_data uses it *)

\* the value a raised exception leaves in place of a dataset
NoRows == << >>

\* Dataset.select(indices)
select(ds, indices) == [ i \in 1..Len(indices) |-> ds[indices[i]] ]

\* numpy's default_rng(seed).permutation(n): a function of n and seed alone
SeededPermutation(n, seed) == [ i \in 1..n |-> ((i - 1 + seed) % n) + 1 ]

\* Dataset.train_test_split(test_size=k, shuffle=True, seed=s), k an int:
\* the first k rows of the seeded permutation are "test", the rest "train";
\* ValueError when k leaves no train row
train_test_split(ds, test_size, seed) ==
    LET n == Len(ds)
        perm == SeededPermutation(n, seed)
    IN  IF test_size >= n \/ test_size <= 0
        THEN [ raised |-> TRUE, train |-> NoRows, test |-> NoRows ]
        ELSE [ raised |-> FALSE,
               train |-> select(ds, SubSeq(perm, test_size + 1, n)),
               test |-> select(ds, SubSeq(perm, 1, test_size)) ]

\* Dataset.shuffle() with no seed: any order of the rows
shuffle(ds) == { select(ds, p) : p \in Permutations(1..Len(ds)) }

\* Dataset.map(self.tokenize_prompt).remove_columns([...]): eager, and an
\* exception of the mapped function propagates
map_tokenize(ds) ==
    LET res == [ i \in 1..Len(ds) |-> tokenize_prompt(ds[i]) ]
    IN  IF \E i \in 1..Len(ds) : res[i].raised
        THEN [ raised |-> TRUE, rows |-> NoRows ]
        ELSE [ raised |-> FALSE,
               rows |-> [ i \in 1..Len(ds) |->
                            [ input_ids |-> res[i].input_ids,
                              labels |-> res[i].labels ] ] ]

-----------------------------------------------------------------------------
(* split_train_data (lines 48-63) *)

Seed == 42

\* an exception left split_train_data
SplitRaised ==
    [ raised |-> TRUE, train_data |-> NoRows, val_data |-> NoRows,
      val_is_none |-> TRUE ]

\* lines 53-58
SplitBoth(tr, te) ==
    LET mtr == map_tokenize(tr)
        mte == map_tokenize(te)
    IN  IF mtr.raised \/ mte.raised THEN SplitRaised
        ELSE [ raised |-> FALSE, train_data |-> mtr.rows,
               val_data |-> mte.rows, val_is_none |-> FALSE ]

\* lines 60-61
SplitAll(tr) ==
    LET mtr == map_tokenize(tr)
    IN  IF mtr.raised THEN SplitRaised
        ELSE [ raised |-> FALSE, train_data |-> mtr.rows,
               val_data |-> NoRows, val_is_none |-> TRUE ]

\* the outcomes of split_train_data(data): a set, as shuffle() is unseeded
\* variant of split_train_data: the train data is made from data["train"]
MutSplitTrainOnAll(d) ==
    IF d.none
    THEN { SplitRaised }
    ELSE IF val_set_size > 0
    THEN LET train_val == train_test_split(d.train, val_set_size, Seed)
         IN  IF train_val.raised
             THEN { SplitRaised }
             ELSE { SplitBoth(tr, te) : tr \in shuffle(d.train),
                                        te \in shuffle(train_val.test) }
    ELSE { SplitAll(tr) : tr \in shuffle(d.train) }

\* variant of split_train_data: the train/test split is unseeded too
MutSplitUnseeded(d) ==
    IF d.none
    THEN { SplitRaised }
    ELSE IF val_set_size > 0
    THEN IF val_set_size >= Len(d.train)
         THEN { SplitRaised }
         ELSE { SplitBoth(SubSeq(s, val_set_size + 1, Len(s)),
                          SubSeq(s, 1, val_set_size)) : s \in shuffle(d.train) }
    ELSE { SplitAll(tr) : tr \in shuffle(d.train) }

split_train_data(d) ==
    IF d.none
    THEN { SplitRaised }        \* None["train"]: TypeError
    ELSE IF val_set_size > 0
    THEN LET train_val == train_test_split(d.train, val_set_size, Seed)
         IN  IF train_val.raised
             THEN { SplitRaised }
             ELSE { SplitBoth(tr, te) : tr \in shuffle(train_val.train),
                                        te \in shuffle(train_val.test) }
    ELSE { SplitAll(tr) : tr \in shuffle(d.train) }

-----------------------------------------------------------------------------
(* Checkpoint resolution (lines 98-116) *)

\* resume: self.resume_from_checkpoint on entry.  probed: the arguments of the
\* os.path.exists calls, in order.  loaded: the file whose weights went
\* through torch.load and set_peft_model_state_dict, or NoFile.
\* variant of resolve_checkpoint: the adapter-only file is not loaded
MutResolveNoLoad(resume) ==
    IF ~Truthy(resume)
    THEN [ resume |-> resume, probed |-> << >>, loaded |-> NoFile ]
    ELSE LET full == join(resume, FullCheckpoint)
             adapter == join(resume, AdapterCheckpoint)
         IN  [ resume |-> IF ~exists(full) THEN PyFalse ELSE resume,
               probed |-> << full, IF ~exists(full) THEN adapter ELSE full >>,
               loaded |-> IF exists(full) THEN full ELSE NoFile ]

\* variant of resolve_checkpoint: adapter_model.bin is probed first
MutResolveAdapterFirst(resume) ==
    IF ~Truthy(resume)
    THEN [ resume |-> resume, probed |-> << >>, loaded |-> NoFile ]
    ELSE LET full == join(resume, FullCheckpoint)
             adapter == join(resume, AdapterCheckpoint)
             checkpoint_name == IF exists(adapter) THEN adapter ELSE full
         IN  [ resume |-> IF exists(full) THEN resume ELSE PyFalse,
               probed |-> << adapter, checkpoint_name >>,
               loaded |-> IF exists(checkpoint_name)
                          THEN checkpoint_name ELSE NoFile ]

\* variant of resolve_checkpoint: the attribute is never set to False
MutResolveLocal(resume) ==
    IF ~Truthy(resume)
    THEN [ resume |-> resume, probed |-> << >>, loaded |-> NoFile ]
    ELSE LET full == join(resume, FullCheckpoint)
             adapter == join(resume, AdapterCheckpoint)
             checkpoint_name == IF ~exists(full) THEN adapter ELSE full
         IN  [ resume |-> resume,
               probed |-> << full, checkpoint_name >>,
               loaded |-> IF exists(checkpoint_name)
                          THEN checkpoint_name ELSE NoFile ]

resolve_checkpoint(resume) ==
    IF ~Truthy(resume)
    THEN [ resume |-> resume, probed |-> << >>, loaded |-> NoFile ]
    ELSE LET full == join(resume, FullCheckpoint)
             adapter == join(resume, AdapterCheckpoint)
             checkpoint_name == IF ~exists(full) THEN adapter ELSE full
         IN  [ resume |-> IF ~exists(full) THEN PyFalse ELSE resume,
               probed |-> << full, checkpoint_name >>,
               loaded |-> IF exists(checkpoint_name)
                          THEN checkpoint_name ELSE NoFile ]

-----------------------------------------------------------------------------
(* Scheduling values and TrainingArguments (lines 118-143) *)

\* variant of total_batch_size: the world size is multiplied in without ddp
MutTotalBatchAlwaysWorld(batch, accum, world, distributed) ==
    batch * accum * world

total_batch_size(batch, accum, world, distributed) ==
    batch * accum * (IF distributed THEN world ELSE 1)

\* a // b, b > 0
total_optim_steps(rows, total_batch) == rows \div total_batch

\* int(x / 10): true division, then truncation toward zero
int_tenth(x) == IF x >= 0 THEN x \div 10 ELSE -((-x) \div 10)

NoArgs ==
    [ built |-> FALSE, total_batch_size |-> 0, total_optim_steps |-> 0,
      warmup_steps |-> 0, save_steps |-> 0, eval_steps |-> << >>,
      evaluation_strategy |-> "no", load_best_model_at_end |-> FALSE ]

\* eval_steps: << >> is None, << n >> is n
TrainingArguments(rows) ==
    LET total_batch == total_batch_size(per_gpu_train_batch_size,
                           gradient_accumulation_steps, world_size, ddp)
        total_steps == total_optim_steps(rows, total_batch)
        saving_step == int_tenth(total_steps)
        warmup_steps == int_tenth(total_steps)
    IN  [ built |-> TRUE,
          total_batch_size |-> total_batch,
          total_optim_steps |-> total_steps,
          warmup_steps |-> warmup_steps,
          save_steps |-> saving_step,
          eval_steps |-> IF val_set_size > 0 THEN << saving_step >> ELSE << >>,
          evaluation_strategy |-> IF val_set_size > 0 THEN "steps" ELSE "no",
          load_best_model_at_end |-> val_set_size > 0 ]

-----------------------------------------------------------------------------
(* finetune (lines 65-162) *)

\* run: op, the method called; status, how it ended; resume_before and
\* files, self.resume_from_checkpoint and the filesystem on entry; probed,
\* loaded, see resolve_checkpoint; train_resume, the argument of
\* trainer.train; trace, the calls made, in order; eval_inputs, the batch
\* handed to eval_output
Idle ==
    [ op |-> "none", status |-> "none", resume_before |-> PyNone,
      probed |-> << >>, loaded |-> NoFile,
      train_resume |-> PyNone, files |-> {}, trace |-> << >>,
      eval_inputs |-> << >> ]

\* "if not data" (line 92): None, or a DatasetDict with no split
\* variant of is_empty: the early return is never taken
MutNeverEmpty(d) == FALSE

is_empty(d) == d.none

\* the calls of a finetune that gets past split_train_data, in code order,
\* up to checkpoint resolution (ck)
ResolveTrace(ck) ==
    << "load_train_data", "split_train_data" >> \o
    [ i \in 1..Len(ck.probed) |-> "exists" ] \o
    (IF ck.loaded # NoFile THEN << "set_peft_model_state_dict" >> ELSE << >>)

\* one call of finetune on data d, with sp the outcome of split_train_data
finetune(d, sp) ==
    LET entry == [ Idle EXCEPT !.op = "finetune",
                               !.resume_before = resume_from_checkpoint,
                               !.files = fs ]
    IN  IF is_empty(d)
        THEN [ resume |-> resume_from_checkpoint,
               downgraded |-> downgraded,
               split |-> << >>, rows |-> 0, args |-> NoArgs,
               run |-> [ entry EXCEPT !.status = "early_return",
                                      !.trace = << "load_train_data" >> ] ]
        ELSE IF sp.raised
        THEN [ resume |-> resume_from_checkpoint,
               downgraded |-> downgraded,
               split |-> << sp >>, rows |-> 0, args |-> NoArgs,
               run |-> [ entry EXCEPT !.status = "raised",
                                      !.trace = << "load_train_data",
                                                   "split_train_data" >> ] ]
        ELSE LET ck == resolve_checkpoint(resume_from_checkpoint)
             IN  [ resume |-> ck.resume,
                   downgraded |-> downgraded \/
                       (Truthy(resume_from_checkpoint) /\ ck.resume = PyFalse),
                   split |-> << sp >>,
                   rows |-> Len(sp.train_data),
                   args |-> TrainingArguments(Len(sp.train_data)),
                   run |-> [ entry EXCEPT !.status = "returned",
                                          !.probed = ck.probed,
                                          !.loaded = ck.loaded,
                                          !.train_resume = ck.resume,
                                          !.trace = ResolveTrace(ck) \o
                                              << "Trainer", "train",
                                                 "save_pretrained" >> ] ]

-----------------------------------------------------------------------------
(* load_train_data, of the base class LLM: None, or a DatasetDict whose      *)
(* "train" split holds the examples.  An example is its input text and its   *)
(* output; the texts of a dataset are told apart by their position.          *)

Outputs == { "negative", "neutral" }

Examples(outs) == [ i \in 1..Len(outs) |-> [ input |-> i, output |-> outs[i] ] ]

Datasets ==
    { Examples(outs) : outs \in UNION { [ 1..n -> Outputs ] : n \in 0..MaxRows } }

NoData == [ none |-> TRUE, train |-> NoRows ]

load_train_data == { NoData } \cup { [ none |-> FALSE, train |-> t ] : t \in Datasets }

-----------------------------------------------------------------------------
(* Specification of repeated finetune calls on one instance *)

LabelChoices == { << "positive", "negative" >>,
                  << "negative", "positive", "negative" >> }

CheckpointDir == "ckpt"

CheckpointFiles == { join(CheckpointDir, FullCheckpoint),
                     join(CheckpointDir, AdapterCheckpoint) }

Init ==
    /\ labels \in LabelChoices
    /\ val_set_size \in (-1)..MaxValSetSize
    /\ resume_from_checkpoint \in { PyNone, PyFalse, CheckpointDir }
    /\ adapter_weights = "None"
    /\ load_8bit = FALSE
    /\ per_gpu_train_batch_size = 1
    /\ gradient_accumulation_steps = 1
    /\ world_size = 1
    /\ ddp = FALSE
    /\ fs \in SUBSET CheckpointFiles
    /\ data = NoData
    /\ run = Idle
    /\ downgraded = FALSE
    /\ splits = << >>
    /\ num_rows = 0
    /\ train_args = NoArgs

Finetune ==
    \E d \in load_train_data :
        \E sp \in split_train_data(d) :
            LET r == finetune(d, sp)
            IN  /\ data' = d
                /\ resume_from_checkpoint' = r.resume
                /\ downgraded' = r.downgraded
                /\ splits' = r.split
                /\ num_rows' = r.rows
                /\ train_args' = r.args
                /\ run' = r.run
                /\ UNCHANGED << labels, val_set_size, adapter_weights,
                                load_8bit, per_gpu_train_batch_size,
                                gradient_accumulation_steps, world_size, ddp,
                                fs >>

\* the checkpoint directory is external mutable state: between two calls
\* files may appear in it or vanish from it
FsChange ==
    /\ \E f \in SUBSET CheckpointFiles : fs' = f /\ f # fs
    /\ UNCHANGED << labels, val_set_size, resume_from_checkpoint,
                    adapter_weights, load_8bit, per_gpu_train_batch_size,
                    gradient_accumulation_steps, world_size, ddp, data, run,
                    downgraded, splits, num_rows, train_args >>

Next == Finetune \/ FsChange

Spec == Init /\ [][Next]_vars

-----------------------------------------------------------------------------
(* Specification of split_train_data called again on the same data *)

InitSplit ==
    /\ labels \in LabelChoices
    /\ val_set_size \in (-1)..MaxValSetSize
    /\ resume_from_checkpoint = PyNone
    /\ adapter_weights = "None"
    /\ load_8bit = FALSE
    /\ per_gpu_train_batch_size = 1
    /\ gradient_accumulation_steps = 1
    /\ world_size = 1
    /\ ddp = FALSE
    /\ fs = {}
    /\ data \in load_train_data \ { NoData }
    /\ run = Idle
    /\ downgraded = FALSE
    /\ splits = << >>
    /\ num_rows = 0
    /\ train_args = NoArgs

Split ==
    /\ Len(splits) < MaxSplits
    /\ \E sp \in split_train_data(data) : splits' = Append(splits, sp)
    /\ UNCHANGED << labels, val_set_size, resume_from_checkpoint,
                    adapter_weights, load_8bit, per_gpu_train_batch_size,
                    gradient_accumulation_steps, world_size, ddp, fs, data,
                    run, downgraded, num_rows, train_args >>

NextSplit == Split

SpecSplit == InitSplit /\ [][NextSplit]_vars

-----------------------------------------------------------------------------
(* Specification of the scheduling values, over the configurations *)

InitSched ==
    /\ labels = << "positive", "negative" >>
    /\ val_set_size \in (-1)..MaxValSetSize
    /\ resume_from_checkpoint = PyNone
    /\ adapter_weights = "None"
    /\ load_8bit = FALSE
    /\ per_gpu_train_batch_size \in 1..MaxBatch
    /\ gradient_accumulation_steps \in 1..MaxAccum
    /\ world_size \in 1..MaxWorld
    /\ ddp \in BOOLEAN
    /\ fs = {}
    /\ data = NoData
    /\ run = Idle
    /\ downgraded = FALSE
    /\ splits = << >>
    /\ num_rows \in 0..MaxNumRows
    /\ train_args = NoArgs

\* lines 118-143 on a train_data of num_rows rows
BuildTrainingArguments ==
    /\ ~train_args.built
    /\ train_args' = TrainingArguments(num_rows)
    /\ UNCHANGED << labels, val_set_size, resume_from_checkpoint,
                    adapter_weights, load_8bit, per_gpu_train_batch_size,
                    gradient_accumulation_steps, world_size, ddp, fs, data,
                    run, downgraded, splits, num_rows >>

NextSched == BuildTrainingArguments

SpecSched == InitSched /\ [][NextSched]_vars

-----------------------------------------------------------------------------
(* evaluate and generate (lines 164-195) *)

\* get_eval_input, of the base class: a batch of items, each with its input
EvalBatches ==
    { [ i \in 1..n |-> [ input |-> i, ac_output |-> PyNone ] ] : n \in 0..MaxItems }

\* evaluate(model, input) with predicted_class_idx = idx, the argmax of the
\* logits of the model: self.labels[idx], IndexError past the vocabulary
evaluate(idx) ==
    IF idx < Len(labels)
    THEN [ raised |-> FALSE, label |-> labels[idx + 1] ]
    ELSE [ raised |-> TRUE, label |-> PyNone ]

\* line 177
\* variant of layers_adapter: the sentinel is spelled "none"
MutLayerUnlessLower(weights) == weights # "none"

layers_adapter(weights) == weights # "None"

\* the items the loop of lines 190-193 annotates before it ends: all of them,
\* or those before the first evaluate that raises
Evaluated(batch, idx) ==
    IF \E i \in 1..Len(batch) : evaluate(idx[i]).raised
    THEN (CHOOSE i \in 1..Len(batch) :
              evaluate(idx[i]).raised /\
              \A j \in 1..(i - 1) : ~evaluate(idx[j]).raised) - 1
    ELSE Len(batch)

\* one call of generate on the batch, idx[i] the class predicted for item i
generate(batch, idx) ==
    LET n == Evaluated(batch, idx)
        raised == n < Len(batch)
    IN  [ Idle EXCEPT
            !.op = "generate",
            !.status = IF raised THEN "raised" ELSE "returned",
            !.trace = << "get_model_tokenizer" >> \o
                (IF layers_adapter(adapter_weights)
                 THEN << "PeftModel.from_pretrained" >> ELSE << >>) \o
                (IF ~load_8bit THEN << "half" >> ELSE << >>) \o
                << "get_eval_input" >> \o
                [ i \in 1..(IF raised THEN n + 1 ELSE n) |-> "evaluate" ] \o
                (IF raised THEN << >> ELSE << "eval_output" >>),
            !.eval_inputs =
                IF raised THEN << >>
                ELSE [ i \in 1..Len(batch) |->
                         [ batch[i] EXCEPT
                             !.ac_output = evaluate(idx[i]).label ] ] ]

AdapterPaths == { "None", "none", "output/adapter" }

InitGen ==
    /\ labels \in LabelChoices
    /\ val_set_size = 0
    /\ resume_from_checkpoint = PyNone
    /\ adapter_weights \in AdapterPaths
    /\ load_8bit \in BOOLEAN
    /\ per_gpu_train_batch_size = 1
    /\ gradient_accumulation_steps = 1
    /\ world_size = 1
    /\ ddp = FALSE
    /\ fs = {}
    /\ data = NoData
    /\ run = Idle
    /\ downgraded = FALSE
    /\ splits = << >>
    /\ num_rows = 0
    /\ train_args = NoArgs

Generate ==
    /\ \E batch \in EvalBatches :
           \E idx \in [ 1..Len(batch) -> 0..Len(labels) ] :
               run' = generate(batch, idx)
    /\ UNCHANGED << labels, val_set_size, resume_from_checkpoint,
                    adapter_weights, load_8bit, per_gpu_train_batch_size,
                    gradient_accumulation_steps, world_size, ddp, fs, data,
                    downgraded, splits, num_rows, train_args >>

NextGen == Generate

SpecGen == InitGen /\ [][NextGen]_vars

-----------------------------------------------------------------------------
(* Properties *)

\* the call named ev was made by the last finetune or generate
Did(ev) == \E i \in 1..Len(run.trace) : run.trace[i] = ev

\* every call named a was made before every call named b
Before(a, b) ==
    \A i, j \in 1..Len(run.trace) :
        (run.trace[i] = a /\ run.trace[j] = b) => i < j

\* k is the 0-based position of the first x in the label vocabulary
IsFirstPosition(k, x) ==
    /\ k \in 0..(Len(labels) - 1)
    /\ labels[k + 1] = x
    /\ \A j \in 0..(k - 1) : labels[j + 1] # x

\* the examples (by input text) a tokenized dataset was made from
RowSet(ds) == { ds[i].input_ids : i \in 1..Len(ds) }

\* the last finetune got past split_train_data with a configured checkpoint
ResolvedConfigured ==
    /\ run.op = "finetune"
    /\ run.status = "returned"
    /\ Truthy(run.resume_before)

FullPath == join(run.resume_before, FullCheckpoint)
AdapterPath == join(run.resume_before, AdapterCheckpoint)

\* C1: a finetune whose configured checkpoint directory holds
\* adapter_model.bin and no pytorch_model.bin leaves
\* self.resume_from_checkpoint False, calls trainer.train with
\* resume_from_checkpoint=False, and has loaded the weights of
\* adapter_model.bin with set_peft_model_state_dict before trainer.train.
C1_AdapterOnlyDowngradesAndLoads ==
    (ResolvedConfigured /\ AdapterPath \in run.files /\ FullPath \notin run.files)
    => /\ resume_from_checkpoint = PyFalse
       /\ run.train_resume = PyFalse
       /\ run.loaded = AdapterPath
       /\ Did("set_peft_model_state_dict")
       /\ Did("train")
       /\ Before("set_peft_model_state_dict", "train")

C1_Witness ==
    /\ ResolvedConfigured
    /\ AdapterPath \in run.files
    /\ FullPath \notin run.files
    /\ run.loaded = AdapterPath
    /\ resume_from_checkpoint = PyFalse

\* C2: a finetune whose load_train_data returned empty data returns normally
\* and has made none of: split_train_data, the checkpoint probes, the weight
\* load, the Trainer, trainer.train, model.save_pretrained.
C2_EmptyDataReturnsEarly ==
    (run.op = "finetune" /\ data.none)
    => /\ run.status = "early_return"
       /\ run.trace = << "load_train_data" >>
       /\ run.probed = << >>
       /\ run.loaded = NoFile
       /\ ~Did("Trainer") /\ ~Did("train") /\ ~Did("save_pretrained")
       /\ ~train_args.built

C2_Witness ==
    /\ run.op = "finetune"
    /\ data.none
    /\ run.status = "early_return"
    /\ Truthy(run.resume_before)

\* C3: what split_train_data returns: with val_set_size = 0, every loaded
\* example once as train data and None as validation data; with
\* val_set_size > 0, a train and a validation partition that share no
\* example and whose sizes sum to the number of loaded examples.
C3_SplitPartitions ==
    (run.op = "finetune" /\ splits # << >> /\ ~splits[1].raised)
    => LET sp == splits[1]
           n == Len(data.train)
       IN  /\ val_set_size = 0 =>
               /\ sp.val_is_none
               /\ Len(sp.train_data) = n
               /\ RowSet(sp.train_data) = 1..n
           /\ val_set_size > 0 =>
               /\ ~sp.val_is_none
               /\ RowSet(sp.train_data) \cap RowSet(sp.val_data) = {}
               /\ Cardinality(RowSet(sp.train_data)) = Len(sp.train_data)
               /\ Cardinality(RowSet(sp.val_data)) = Len(sp.val_data)
               /\ Len(sp.train_data) + Len(sp.val_data) = n

C3_Witness ==
    /\ run.op = "finetune"
    /\ splits # << >>
    /\ ~splits[1].raised
    /\ val_set_size > 0
    /\ Len(splits[1].val_data) >= 1
    /\ Len(splits[1].train_data) >= 2

\* C5: tokenize_prompt gives every example whose output is in the label
\* vocabulary a record whose labels is the position of the first occurrence
\* of that output in the vocabulary; so do the records split_train_data
\* returns; ["positive", "negative"] and "negative" give 1.
C5_LabelIsFirstPosition ==
    /\ \A i \in 1..Len(data.train) :
           data.train[i].output \in Range(labels) =>
               /\ ~tokenize_prompt(data.train[i]).raised
               /\ IsFirstPosition(tokenize_prompt(data.train[i]).labels,
                                  data.train[i].output)
    /\ \A k \in 1..Len(splits) :
           \A ds \in { splits[k].train_data, splits[k].val_data } :
               \A i \in 1..Len(ds) :
                   IsFirstPosition(ds[i].labels,
                                   data.train[ds[i].input_ids].output)
    /\ labels = << "positive", "negative" >> =>
           \A k \in 1..Len(splits) :
               \A i \in 1..Len(splits[k].train_data) :
                   data.train[splits[k].train_data[i].input_ids].output = "negative"
                       => splits[k].train_data[i].labels = 1

C5_Witness ==
    /\ run.op = "finetune"
    /\ labels = << "negative", "positive", "negative" >>
    /\ splits # << >>
    /\ ~splits[1].raised
    /\ Len(splits[1].train_data) >= 2
    /\ splits[1].train_data[1].labels = 0

\* C6: when an example of non-empty training data has an output outside the
\* label vocabulary, tokenize_prompt raises on it, split_train_data returns
\* no tokenized record, and the finetune that called it ends in the
\* exception without building or running the trainer.
C6_UnknownLabelAborts ==
    (run.op = "finetune" /\ ~data.none /\
     \E i \in 1..Len(data.train) : data.train[i].output \notin Range(labels))
    => /\ \A i \in 1..Len(data.train) :
              data.train[i].output \notin Range(labels) =>
                  tokenize_prompt(data.train[i]).raised
       /\ splits # << >>
       /\ splits[1].raised
       /\ splits[1].train_data = NoRows
       /\ splits[1].val_data = NoRows
       /\ run.status = "raised"
       /\ ~Did("Trainer") /\ ~Did("train") /\ ~Did("save_pretrained")

C6_Witness ==
    /\ run.op = "finetune"
    /\ ~data.none
    /\ Len(data.train) >= 2
    /\ data.train[1].output \in Range(labels)
    /\ data.train[2].output \notin Range(labels)
    /\ run.status = "raised"

\* C8: in a finetune with a configured checkpoint directory that gets past
\* the split, pytorch_model.bin is probed first and adapter_model.bin only
\* when it is missing; trainer.train gets the checkpoint path exactly when
\* pytorch_model.bin exists, and the weights then come from it; with neither
\* file, nothing is loaded and training runs with resumption disabled.
C8_FullFirstAdapterFallback ==
    ResolvedConfigured
    => /\ run.probed[1] = FullPath
       /\ (run.train_resume = run.resume_before) <=> (FullPath \in run.files)
       /\ FullPath \in run.files =>
              /\ run.loaded = FullPath
              /\ \A i \in 1..Len(run.probed) : run.probed[i] # AdapterPath
       /\ FullPath \notin run.files =>
              /\ run.probed = << FullPath, AdapterPath >>
              /\ run.train_resume = PyFalse
       /\ (FullPath \notin run.files /\ AdapterPath \notin run.files) =>
              /\ run.loaded = NoFile
              /\ ~Did("set_peft_model_state_dict")
       /\ Did("train")
       /\ Did("save_pretrained")

C8_Witness ==
    /\ ResolvedConfigured
    /\ FullPath \in run.files
    /\ AdapterPath \in run.files
    /\ run.loaded = FullPath
    /\ run.train_resume = run.resume_before

\* C10: once a finetune has resolved a configured checkpoint directory that
\* lacks pytorch_model.bin, self.resume_from_checkpoint is False and stays
\* False; every later finetune probes no file and loads no weights, whatever
\* the directory holds; a finetune that returns early on empty data leaves
\* self.resume_from_checkpoint as it was.
C10_DowngradePersists ==
    [][ /\ downgraded' => resume_from_checkpoint' = PyFalse
        /\ downgraded => downgraded'
        /\ (downgraded /\ run' # run) =>
               /\ run'.resume_before = PyFalse
               /\ run'.probed = << >>
               /\ run'.loaded = NoFile
               /\ run'.status = "returned" => run'.train_resume = PyFalse
        /\ (~downgraded /\ run' # run /\ run'.status = "returned" /\
            Truthy(run'.resume_before) /\
            join(run'.resume_before, FullCheckpoint) \notin run'.files)
               => downgraded'
        /\ (run' # run /\ run'.status = "early_return") =>
               resume_from_checkpoint' = resume_from_checkpoint ]_vars

C10_Witness ==
    /\ downgraded
    /\ run.op = "finetune"
    /\ run.status = "returned"
    /\ run.resume_before = PyFalse
    /\ join(CheckpointDir, AdapterCheckpoint) \in run.files
    /\ run.loaded = NoFile

\* C4, as stated: split_train_data called again on the same data with the
\* same configuration returns the same train data and validation data.
C4_SplitsIdentical ==
    \A i, j \in 1..Len(splits) : splits[i] = splits[j]

\* C4, amended: split_train_data called again on the same data with the same
\* configuration puts the same examples in the train data and the same
\* examples in the validation data (and raises alike); the order of the rows
\* of each is not fixed.
C4_SplitsSameMembers ==
    \A i, j \in 1..Len(splits) :
        /\ splits[i].raised = splits[j].raised
        /\ splits[i].val_is_none = splits[j].val_is_none
        /\ RowSet(splits[i].train_data) = RowSet(splits[j].train_data)
        /\ RowSet(splits[i].val_data) = RowSet(splits[j].val_data)

C4_Witness ==
    /\ Len(splits) >= 2
    /\ val_set_size > 0
    /\ ~splits[1].raised
    /\ Len(splits[1].val_data) >= 1
    /\ splits[1].train_data # splits[2].train_data

\* C7: the scheduling values of finetune: the effective batch size is
\* per-device batch * accumulation steps * (world size if ddp, else 1); the
\* total optimizer steps are the floor of train rows over effective batch;
\* warmup steps and save cadence are the floor of a tenth of the total; the
\* eval cadence is the save cadence when val_set_size > 0.  Batch 4,
\* accumulation 2, no ddp, 100 rows: 8, 12, 1 and 1.
C7_SchedulingValues ==
    train_args.built
    => /\ train_args.total_batch_size =
              per_gpu_train_batch_size * gradient_accumulation_steps *
              (IF ddp THEN world_size ELSE 1)
       /\ train_args.total_optim_steps * train_args.total_batch_size <= num_rows
       /\ num_rows < (train_args.total_optim_steps + 1) * train_args.total_batch_size
       /\ train_args.warmup_steps = train_args.save_steps
       /\ 10 * train_args.save_steps <= train_args.total_optim_steps
       /\ train_args.total_optim_steps < 10 * (train_args.save_steps + 1)
       /\ val_set_size > 0 => train_args.eval_steps = << train_args.save_steps >>
       /\ (per_gpu_train_batch_size = 4 /\ gradient_accumulation_steps = 2 /\
           ~ddp /\ num_rows = 100) =>
              /\ train_args.total_batch_size = 8
              /\ train_args.total_optim_steps = 12
              /\ train_args.warmup_steps = 1
              /\ train_args.save_steps = 1

C7_Witness ==
    /\ train_args.built
    /\ per_gpu_train_batch_size = 4
    /\ gradient_accumulation_steps = 2
    /\ ~ddp
    /\ world_size = 2
    /\ num_rows = 100
    /\ val_set_size > 0
    /\ train_args.eval_steps = << 1 >>

\* every item of the batch handed to eval_output carries a label of the
\* vocabulary, and each was evaluated before eval_output was called
BatchAnnotated ==
    run.status = "returned"
    => /\ Did("eval_output")
       /\ \A i \in 1..Len(run.eval_inputs) :
              run.eval_inputs[i].ac_output \in Range(labels)
       /\ Cardinality({ i \in 1..Len(run.trace) : run.trace[i] = "evaluate" })
              = Len(run.eval_inputs)
       /\ Before("evaluate", "eval_output")

\* C9, as stated: generate skips PeftModel.from_pretrained when the adapter
\* path is "none" and calls it for every other path; the batch handed to
\* eval_output has every item annotated.
C9_SkipsOnLowercaseNone ==
    run.op = "generate"
    => /\ adapter_weights = "none" => ~Did("PeftModel.from_pretrained")
       /\ adapter_weights # "none" => Did("PeftModel.from_pretrained")
       /\ BatchAnnotated

\* C9, amended: generate skips PeftModel.from_pretrained when the adapter
\* path is the string "None", compared case-sensitively, and calls it for
\* every other path, "none" included; the batch handed to eval_output has
\* every item annotated.
C9_SkipsOnNone ==
    run.op = "generate"
    => /\ adapter_weights = "None" => ~Did("PeftModel.from_pretrained")
       /\ adapter_weights # "None" => Did("PeftModel.from_pretrained")
       /\ Before("PeftModel.from_pretrained", "evaluate")
       /\ BatchAnnotated

C9_Witness ==
    /\ run.op = "generate"
    /\ run.status = "returned"
    /\ adapter_weights = "none"
    /\ Did("PeftModel.from_pretrained")
    /\ Len(run.eval_inputs) >= 2

====
